---- MODULE Spec2Model ----
(***************************************************************************)
(* Model of instructlab/eval/mt_bench.py: the MT-Bench evaluators.         *)
(*                                                                         *)
(* One evaluator object is constructed (either variant), then gen_answers  *)
(* and judge_answers are called on it any number of times.  Every call     *)
(* into a collaborator module (mt_bench_branch_generator, mt_bench_answers,*)
(* mt_bench_judgment) is a blocking call: the model splits each method at  *)
(* those calls, so that the host can change and the collaborator can       *)
(* return or raise while the method is suspended.                          *)
(***************************************************************************)
EXTENDS Integers, Sequences, FiniteSets, TLC

VARIABLES
    host_cpus,          \* what the host's CPU probe yields at this moment
    pc,                 \* position of the caller / of the running method
    self,               \* the evaluator object's attributes
    init_args,          \* __init__'s parameters max_workers and serving_gpus
    usable_cpu_count,   \* __init__'s local usable_cpu_count (-1: never assigned)
    calls,              \* collaborator events of the current (or last) method call
    outcome             \* how the last __init__ / method call ended

vars == <<host_cpus, pc, self, init_args, usable_cpu_count, calls, outcome>>

----------------------------------------------------------------------------
(* Bounds of the model.                                                    *)

\* usable CPU counts of the host range over 1 .. MaxCpu
MaxCpu == 21
\* largest serving_gpus hint
MaxGpus == 2
\* explicit integer max_workers inputs range over -1 .. MaxExplicit
MaxExplicit == 3

----------------------------------------------------------------------------
(* Python values.  A value carries its type; n is its numeric content and  *)
(* s its text, so that ==, isinstance and > can be modelled as Python      *)
(* computes them (3 and "3" differ, True is an int, None is no int).       *)

PyInt(n) == [t |-> "int", n |-> n, s |-> ""]
PyStr(s) == [t |-> "str", n |-> 0, s |-> s]
PyBool(b) == [t |-> "bool", n |-> IF b THEN 1 ELSE 0, s |-> ""]
PyFloat(n) == [t |-> "float", n |-> n, s |-> ""]
PyNone == [t |-> "NoneType", n |-> 0, s |-> ""]

\* x == "auto"
EqAuto(x) == x.t = "str" /\ x.s = "auto"
\* isinstance(x, int): bool is a subclass of int
IsInstanceInt(x) == x.t \in {"int", "bool"}
\* x is not None
IsNotNone(x) == x.t # "NoneType"

Min(a, b) == IF a <= b THEN a ELSE b
Max(a, b) == IF a >= b THEN a ELSE b

\* number of workers one serving GPU is given (the literal 10)
WorkersPerGpu == 10

\* an exception object: its class and the argument it was raised with
Exc(cls, arg) == [cls |-> cls, arg |-> arg]
NoExc == Exc("", PyNone)

----------------------------------------------------------------------------
(* AbstractMTBenchEvaluator.__init__, lines 56-79: the worker budget.      *)
(* Yields the value stored in self.max_workers, or the exception raised.   *)

\* variant: a hint of 0 GPUs is not raised to 1
AutoWithGpus_NoFloor(serving_gpus, cpu) ==
    Min(serving_gpus.n * WorkersPerGpu, cpu)

AutoWithGpus(serving_gpus, cpu) ==
    Min(Max(serving_gpus.n, 1) * WorkersPerGpu, cpu)

\* variant: the half is clamped to at least one worker
AutoWithoutGpus_Clamped(cpu) == Max(cpu \div 2, 1)

AutoWithoutGpus(cpu) == cpu \div 2

\* variant: the comparison is >= 0, so 0 and False are accepted
ExplicitAccepted_ZeroAllowed(max_workers) ==
    IsInstanceInt(max_workers) /\ max_workers.n >= 0

\* variant: the comparison is > 1, so 1 and True are rejected
ExplicitAccepted_OneRejected(max_workers) ==
    IsInstanceInt(max_workers) /\ max_workers.n > 1

ExplicitAccepted(max_workers) ==
    IsInstanceInt(max_workers) /\ max_workers.n > 0

InitMaxWorkers(max_workers, serving_gpus, cpu) ==
    IF EqAuto(max_workers)
    THEN IF IsNotNone(serving_gpus)
         THEN [raised |-> FALSE, value |-> PyInt(AutoWithGpus(serving_gpus, cpu)), exc |-> NoExc]
         ELSE [raised |-> FALSE, value |-> PyInt(AutoWithoutGpus(cpu)), exc |-> NoExc]
    ELSE IF ExplicitAccepted(max_workers)
         THEN [raised |-> FALSE, value |-> max_workers, exc |-> NoExc]
         ELSE [raised |-> TRUE, value |-> PyNone,
               exc |-> Exc("InvalidMaxWorkersError", max_workers)]

----------------------------------------------------------------------------
(* Inputs.                                                                 *)

\* a keyword argument that is not passed / an attribute that is not set
Absent == [t |-> "absent", n |-> 0, s |-> ""]

\* the affinity set of a running process is never empty, and cpu_count() is
\* at least 1: the probe yields a positive count
CpuCounts == 1 .. MaxCpu

MaxWorkersInputs ==
    {PyStr("auto"), PyStr("3"), PyNone, PyBool(TRUE), PyBool(FALSE), PyFloat(2)}
        \cup {PyInt(n) : n \in -1 .. MaxExplicit}

ServingGpusInputs == {PyNone} \cup {PyInt(g) : g \in 0 .. MaxGpus}

MergeInputs == {PyBool(FALSE), PyBool(TRUE)}

ServerUrls == {PyStr("http://model:8000/v1"), PyStr("http://judge:8000/v1")}

\* failures a collaborator can raise
CollaboratorFailures ==
    {Exc("ConnectionError", PyStr("endpoint unreachable")),
     Exc("FileNotFoundError", PyStr("artifact missing"))}

\* what mt_bench_judgment.generate_judgment returns:
\* (overall_score, qa_pairs, turn_scores, error_rate)
OverallScores == {"overall_6.5", "overall_8.1"}
QaPairsValues == {"qa_pairs_a", "qa_pairs_b"}
TurnScoresValues == {"turn_scores_a"}
ErrorRates == {"error_rate_0.0", "error_rate_0.25"}

JudgmentResults ==
    {<<o, q, t, e>> : o \in OverallScores, q \in QaPairsValues,
                      t \in TurnScoresValues, e \in ErrorRates}

----------------------------------------------------------------------------
(* The evaluator object and the results of calls.                          *)

ConfigFields ==
    {"model_name", "judge_model_name", "output_dir", "max_workers",
     "serving_gpus", "merge_system_user_message"}
BranchFields == {"taxonomy_git_repo_path", "branch"}

\* an object no attribute of which is set
NoObject ==
    [name |-> "", attrs |-> {},
     model_name |-> Absent, judge_model_name |-> Absent, output_dir |-> Absent,
     max_workers |-> Absent, serving_gpus |-> Absent,
     merge_system_user_message |-> Absent,
     taxonomy_git_repo_path |-> Absent, branch |-> Absent]

NoArgs == [max_workers |-> Absent, serving_gpus |-> Absent]

\* a call has not ended / returned v / raised e
\* what a call hands back: nothing yet, Python's None, or a tuple of results
NoValue == [t |-> "", items |-> <<>>]
RetNone == [t |-> "NoneType", items |-> <<>>]
RetTuple(items) == [t |-> "tuple", items |-> items]

\* a call has not ended / returned v / raised e
Pending == [kind |-> "pending", op |-> "", value |-> NoValue, exc |-> NoExc]
Returned(op, v) == [kind |-> "return", op |-> op, value |-> v, exc |-> NoExc]
Raised(op, e) == [kind |-> "raise", op |-> op, value |-> NoValue, exc |-> e]

\* the keyword arguments of a collaborator call
NoKwargs ==
    [model_name |-> Absent, judge_model_name |-> Absent, server_url |-> Absent,
     branch |-> Absent, taxonomy_git_repo_path |-> Absent, output_dir |-> Absent,
     data_dir |-> Absent, max_workers |-> Absent, bench_name |-> Absent,
     merge_system_user_message |-> Absent]

\* a collaborator is called with args / returns result / raises e
CallEvent(fn, args) ==
    [ev |-> "call", fn |-> fn, args |-> args, result |-> NoValue, exc |-> NoExc]
ReturnEvent(fn, result) ==
    [ev |-> "return", fn |-> fn, args |-> NoKwargs, result |-> result, exc |-> NoExc]
RaiseEvent(fn, e) ==
    [ev |-> "raise", fn |-> fn, args |-> NoKwargs, result |-> NoValue, exc |-> e]

\* the collaborators
GenerateBranch == "mt_bench_branch_generator.generate"
GenerateAnswers == "mt_bench_answers.generate_answers"
GenerateJudgment == "mt_bench_judgment.generate_judgment"

----------------------------------------------------------------------------
(* Construction.                                                           *)

\* AbstractMTBenchEvaluator.__init__, applied to the object obj
AbstractInit(obj, max_workers, serving_gpus, merge, cpu) ==
    LET r == InitMaxWorkers(max_workers, serving_gpus, cpu)
        set == [obj EXCEPT
                   !.model_name = PyStr("model-under-test"),
                   !.judge_model_name = PyStr("judge-model"),
                   !.output_dir = PyStr("eval_output"),
                   !.serving_gpus = serving_gpus,
                   !.merge_system_user_message = merge,
                   !.attrs = {"model_name", "judge_model_name", "output_dir",
                              "serving_gpus", "merge_system_user_message"}]
    IN  IF r.raised
        THEN [raised |-> TRUE, exc |-> r.exc, obj |-> set]
        ELSE [raised |-> FALSE, exc |-> NoExc,
              obj |-> [set EXCEPT !.max_workers = r.value,
                                  !.attrs = @ \cup {"max_workers"}]]

\* the value __init__ leaves in its local usable_cpu_count
LocalCpuCount(max_workers, cpu) == IF EqAuto(max_workers) THEN cpu ELSE -1

Init ==
    /\ host_cpus \in CpuCounts
    /\ pc = "start"
    /\ self = NoObject
    /\ init_args = NoArgs
    /\ usable_cpu_count = -1
    /\ calls = <<>>
    /\ outcome = Pending

\* MTBenchEvaluator(model_name, judge_model_name, ...)
ConstructStandard ==
    /\ pc = "start"
    /\ \E mw \in MaxWorkersInputs, g \in ServingGpusInputs, m \in MergeInputs :
          LET r == AbstractInit([NoObject EXCEPT !.name = "mt_bench"], mw, g, m, host_cpus)
          IN  /\ init_args' = [max_workers |-> mw, serving_gpus |-> g]
              /\ usable_cpu_count' = LocalCpuCount(mw, host_cpus)
              /\ self' = r.obj
              /\ pc' = IF r.raised THEN "init_failed" ELSE "idle"
              /\ outcome' = IF r.raised THEN Raised("__init__", r.exc)
                                        ELSE Returned("__init__", RetNone)
    /\ UNCHANGED <<host_cpus, calls>>

\* MTBenchBranchEvaluator(model_name, judge_model_name, taxonomy_git_repo_path, branch, ...)
ConstructBranch ==
    /\ pc = "start"
    /\ \E mw \in MaxWorkersInputs, g \in ServingGpusInputs, m \in MergeInputs :
          LET r == AbstractInit([NoObject EXCEPT !.name = "mt_bench_branch"], mw, g, m, host_cpus)
          IN  /\ init_args' = [max_workers |-> mw, serving_gpus |-> g]
              /\ usable_cpu_count' = LocalCpuCount(mw, host_cpus)
              /\ self' = IF r.raised THEN r.obj
                          ELSE [r.obj EXCEPT
                                   !.taxonomy_git_repo_path = PyStr("/repos/taxonomy"),
                                   !.branch = PyStr("feature-branch"),
                                   !.attrs = @ \cup BranchFields]
              /\ pc' = IF r.raised THEN "init_failed" ELSE "idle"
              /\ outcome' = IF r.raised THEN Raised("__init__", r.exc)
                                        ELSE Returned("__init__", RetNone)
    /\ UNCHANGED <<host_cpus, calls>>

\* the set of CPUs the process may run on changes (affinity, hot-plug)
HostCpuChange ==
    /\ \E c \in CpuCounts \ {host_cpus} : host_cpus' = c
    /\ UNCHANGED <<pc, self, init_args, usable_cpu_count, calls, outcome>>


----------------------------------------------------------------------------
(* MTBenchEvaluator.                                                       *)

\* variant: gen_answers derives the worker budget again from the host as it is now
StdGenAnswers_Rederived ==
    /\ pc = "idle" /\ self.name = "mt_bench"
    /\ self' = [self EXCEPT !.max_workers =
                   InitMaxWorkers(PyStr("auto"), self.serving_gpus, host_cpus).value]
    /\ \E server_url \in ServerUrls :
          calls' = <<CallEvent(GenerateAnswers,
                        [NoKwargs EXCEPT !.model_name = self.model_name,
                                         !.server_url = server_url,
                                         !.output_dir = self.output_dir,
                                         !.max_workers = self'.max_workers])>>
    /\ pc' = "std_gen_answers"
    /\ outcome' = Pending
    /\ UNCHANGED <<host_cpus, init_args, usable_cpu_count>>

\* gen_answers, up to its call of mt_bench_answers.generate_answers
StdGenAnswers ==
    /\ pc = "idle" /\ self.name = "mt_bench"
    /\ \E server_url \in ServerUrls :
          calls' = <<CallEvent(GenerateAnswers,
                        [NoKwargs EXCEPT !.model_name = self.model_name,
                                         !.server_url = server_url,
                                         !.output_dir = self.output_dir,
                                         !.max_workers = self.max_workers])>>
    /\ pc' = "std_gen_answers"
    /\ outcome' = Pending
    /\ UNCHANGED <<host_cpus, self, init_args, usable_cpu_count>>

\* generate_answers returns: gen_answers falls off its end and returns None
StdGenAnswersReturn ==
    /\ pc = "std_gen_answers"
    /\ calls' = Append(calls, ReturnEvent(GenerateAnswers, RetNone))
    /\ outcome' = Returned("gen_answers", RetNone)
    /\ pc' = "idle"
    /\ UNCHANGED <<host_cpus, self, init_args, usable_cpu_count>>

\* generate_answers raises: no handler in gen_answers, the exception leaves it
StdGenAnswersRaise ==
    /\ pc = "std_gen_answers"
    /\ \E e \in CollaboratorFailures :
          /\ calls' = Append(calls, RaiseEvent(GenerateAnswers, e))
          /\ outcome' = Raised("gen_answers", e)
    /\ pc' = "idle"
    /\ UNCHANGED <<host_cpus, self, init_args, usable_cpu_count>>

\* judge_answers, up to its call of mt_bench_judgment.generate_judgment
StdJudgeAnswers ==
    /\ pc = "idle" /\ self.name = "mt_bench"
    /\ \E server_url \in ServerUrls :
          calls' = <<CallEvent(GenerateJudgment,
                        [NoKwargs EXCEPT
                            !.model_name = self.model_name,
                            !.judge_model_name = self.judge_model_name,
                            !.server_url = server_url,
                            !.max_workers = self.max_workers,
                            !.output_dir = self.output_dir,
                            !.merge_system_user_message = self.merge_system_user_message])>>
    /\ pc' = "std_judge_answers"
    /\ outcome' = Pending
    /\ UNCHANGED <<host_cpus, self, init_args, usable_cpu_count>>

\* what judge_answers returns, given what generate_judgment returned
StdJudgeResult(r) == r

\* generate_judgment returns r: judge_answers returns it
StdJudgeAnswersReturn ==
    /\ pc = "std_judge_answers"
    /\ \E r \in JudgmentResults :
          /\ calls' = Append(calls, ReturnEvent(GenerateJudgment, RetTuple(r)))
          /\ outcome' = Returned("judge_answers", RetTuple(StdJudgeResult(r)))
    /\ pc' = "idle"
    /\ UNCHANGED <<host_cpus, self, init_args, usable_cpu_count>>

\* variant: judge_answers catches the failure and raises a RuntimeError of its own
StdJudgeAnswersRaise_Translated ==
    /\ pc = "std_judge_answers"
    /\ \E e \in CollaboratorFailures :
          /\ calls' = Append(calls, RaiseEvent(GenerateJudgment, e))
          /\ outcome' = Raised("judge_answers", Exc("RuntimeError", PyStr("judgment failed")))
    /\ pc' = "idle"
    /\ UNCHANGED <<host_cpus, self, init_args, usable_cpu_count>>

\* generate_judgment raises: the exception leaves judge_answers
StdJudgeAnswersRaise ==
    /\ pc = "std_judge_answers"
    /\ \E e \in CollaboratorFailures :
          /\ calls' = Append(calls, RaiseEvent(GenerateJudgment, e))
          /\ outcome' = Raised("judge_answers", e)
    /\ pc' = "idle"
    /\ UNCHANGED <<host_cpus, self, init_args, usable_cpu_count>>

----------------------------------------------------------------------------
(* MTBenchBranchEvaluator.                                                 *)

\* variant: gen_answers starts generate_answers without materializing the branch
BranchGenAnswers_AnswersFirst ==
    /\ pc = "idle" /\ self.name = "mt_bench_branch"
    /\ \E server_url \in ServerUrls :
          calls' = <<CallEvent(GenerateAnswers,
                        [NoKwargs EXCEPT !.model_name = self.model_name,
                                         !.server_url = server_url,
                                         !.branch = self.branch,
                                         !.output_dir = self.output_dir,
                                         !.data_dir = self.output_dir,
                                         !.max_workers = self.max_workers,
                                         !.bench_name = PyStr("mt_bench_branch")])>>
    /\ pc' = "branch_gen_answers"
    /\ outcome' = Pending
    /\ UNCHANGED <<host_cpus, self, init_args, usable_cpu_count>>

\* gen_answers, up to its call of mt_bench_branch_generator.generate
BranchGenAnswers ==
    /\ pc = "idle" /\ self.name = "mt_bench_branch"
    /\ calls' = <<CallEvent(GenerateBranch,
                      [NoKwargs EXCEPT
                          !.judge_model_name = self.judge_model_name,
                          !.branch = self.branch,
                          !.taxonomy_git_repo_path = self.taxonomy_git_repo_path,
                          !.output_dir = self.output_dir])>>
    /\ pc' = "branch_generate"
    /\ outcome' = Pending
    /\ UNCHANGED <<host_cpus, self, init_args, usable_cpu_count>>

\* generate returns: gen_answers goes on to call generate_answers
BranchGenerateReturn ==
    /\ pc = "branch_generate"
    /\ \E server_url \in ServerUrls :
          calls' = calls \o
              <<ReturnEvent(GenerateBranch, RetNone),
                CallEvent(GenerateAnswers,
                    [NoKwargs EXCEPT !.model_name = self.model_name,
                                     !.server_url = server_url,
                                     !.branch = self.branch,
                                     !.output_dir = self.output_dir,
                                     !.data_dir = self.output_dir,
                                     !.max_workers = self.max_workers,
                                     !.bench_name = PyStr("mt_bench_branch")])>>
    /\ pc' = "branch_gen_answers"
    /\ UNCHANGED <<host_cpus, self, init_args, usable_cpu_count, outcome>>

\* generate raises: the exception leaves gen_answers, generate_answers is not called
BranchGenerateRaise ==
    /\ pc = "branch_generate"
    /\ \E e \in CollaboratorFailures :
          /\ calls' = Append(calls, RaiseEvent(GenerateBranch, e))
          /\ outcome' = Raised("gen_answers", e)
    /\ pc' = "idle"
    /\ UNCHANGED <<host_cpus, self, init_args, usable_cpu_count>>

\* generate_answers returns: gen_answers returns None
BranchGenAnswersReturn ==
    /\ pc = "branch_gen_answers"
    /\ calls' = Append(calls, ReturnEvent(GenerateAnswers, RetNone))
    /\ outcome' = Returned("gen_answers", RetNone)
    /\ pc' = "idle"
    /\ UNCHANGED <<host_cpus, self, init_args, usable_cpu_count>>

\* generate_answers raises: the exception leaves gen_answers
BranchGenAnswersRaise ==
    /\ pc = "branch_gen_answers"
    /\ \E e \in CollaboratorFailures :
          /\ calls' = Append(calls, RaiseEvent(GenerateAnswers, e))
          /\ outcome' = Raised("gen_answers", e)
    /\ pc' = "idle"
    /\ UNCHANGED <<host_cpus, self, init_args, usable_cpu_count>>

\* judge_answers, up to its call of mt_bench_judgment.generate_judgment
BranchJudgeAnswers ==
    /\ pc = "idle" /\ self.name = "mt_bench_branch"
    /\ \E server_url \in ServerUrls :
          calls' = <<CallEvent(GenerateJudgment,
                        [NoKwargs EXCEPT
                            !.model_name = self.model_name,
                            !.judge_model_name = self.judge_model_name,
                            !.server_url = server_url,
                            !.branch = self.branch,
                            !.max_workers = self.max_workers,
                            !.output_dir = self.output_dir,
                            !.data_dir = self.output_dir,
                            !.bench_name = PyStr("mt_bench_branch"),
                            !.merge_system_user_message = self.merge_system_user_message])>>
    /\ pc' = "branch_judge_answers"
    /\ outcome' = Pending
    /\ UNCHANGED <<host_cpus, self, init_args, usable_cpu_count>>

\* variant: the first two components are kept instead of the second and fourth
BranchJudgeResult_FirstTwo(r) == <<r[1], r[2]>>

\* _, qa_pairs, _, error_rate = r; return qa_pairs, error_rate
BranchJudgeResult(r) == <<r[2], r[4]>>

\* generate_judgment returns r: judge_answers unpacks it and returns the pair
BranchJudgeAnswersReturn ==
    /\ pc = "branch_judge_answers"
    /\ \E r \in JudgmentResults :
          /\ calls' = Append(calls, ReturnEvent(GenerateJudgment, RetTuple(r)))
          /\ outcome' = Returned("judge_answers", RetTuple(BranchJudgeResult(r)))
    /\ pc' = "idle"
    /\ UNCHANGED <<host_cpus, self, init_args, usable_cpu_count>>

\* generate_judgment raises: the exception leaves judge_answers
BranchJudgeAnswersRaise ==
    /\ pc = "branch_judge_answers"
    /\ \E e \in CollaboratorFailures :
          /\ calls' = Append(calls, RaiseEvent(GenerateJudgment, e))
          /\ outcome' = Raised("judge_answers", e)
    /\ pc' = "idle"
    /\ UNCHANGED <<host_cpus, self, init_args, usable_cpu_count>>

----------------------------------------------------------------------------

Next ==
    \/ ConstructStandard
    \/ ConstructBranch
    \/ HostCpuChange
    \/ StdGenAnswers
    \/ StdGenAnswersReturn
    \/ StdGenAnswersRaise
    \/ StdJudgeAnswers
    \/ StdJudgeAnswersReturn
    \/ StdJudgeAnswersRaise
    \/ BranchGenAnswers
    \/ BranchGenerateReturn
    \/ BranchGenerateRaise
    \/ BranchGenAnswersReturn
    \/ BranchGenAnswersRaise
    \/ BranchJudgeAnswers
    \/ BranchJudgeAnswersReturn
    \/ BranchJudgeAnswersRaise

Spec == Init /\ [][Next]_vars


----------------------------------------------------------------------------
(* Properties.                                                             *)

\* C1: whenever construction has succeeded, the stored max_workers is a
\* positive integer: not zero, not negative, not the "auto" marker.
C1_MaxWorkersPositive ==
    (pc # "start" /\ pc # "init_failed") =>
        /\ "max_workers" \in self.attrs
        /\ self.max_workers.t \in {"int", "bool"}
        /\ self.max_workers.n >= 1

\* C2: a positive integer given as max_workers is accepted and stored as it
\* is, whatever serving_gpus and the host's CPU count are.
C2_ExplicitStoredExactly ==
    (pc # "start" /\ init_args.max_workers.t = "int" /\ init_args.max_workers.n >= 1) =>
        /\ pc # "init_failed"
        /\ outcome.kind # "raise" \/ outcome.op # "__init__"
        /\ "max_workers" \in self.attrs
        /\ self.max_workers = init_args.max_workers

\* an explicit budget larger than the host's CPU count, with a GPU hint, is stored
C2_Witness ==
    /\ pc = "idle"
    /\ init_args.max_workers = PyInt(MaxExplicit)
    /\ init_args.serving_gpus = PyInt(0)
    /\ host_cpus = 1
    /\ self.max_workers = PyInt(MaxExplicit)

\* C3: a max_workers that is neither "auto" nor a positive integer makes the
\* construction of either variant raise InvalidMaxWorkersError with that very
\* value, and the object gets no max_workers.
C3_InvalidRejected ==
    (/\ pc # "start"
     /\ ~(init_args.max_workers.t = "str" /\ init_args.max_workers.s = "auto")
     /\ ~(init_args.max_workers.t \in {"int", "bool"} /\ init_args.max_workers.n >= 1)) =>
        /\ pc = "init_failed"
        /\ outcome = Raised("__init__", Exc("InvalidMaxWorkersError", init_args.max_workers))
        /\ "max_workers" \notin self.attrs
        /\ self.max_workers = Absent

\* the branch variant rejects the string "3" and reports it
C3_Witness ==
    /\ pc = "init_failed"
    /\ self.name = "mt_bench_branch"
    /\ init_args.max_workers = PyStr("3")
    /\ outcome.exc.cls = "InvalidMaxWorkersError"
    /\ outcome.exc.arg = PyStr("3")

\* C4: with max_workers "auto" and serving_gpus g >= 0 on a host of c usable
\* CPUs, the stored budget is min(10 g, c) for g > 0 and min(10, c) for g = 0.
C4_AutoWithGpus ==
    (/\ pc # "start"
     /\ init_args.max_workers = PyStr("auto")
     /\ init_args.serving_gpus.t = "int"
     /\ init_args.serving_gpus.n >= 0) =>
        LET g == init_args.serving_gpus.n
            c == usable_cpu_count
            cap == IF g > 0 THEN 10 * g ELSE 10
        IN  /\ pc # "init_failed"
            /\ self.max_workers.t = "int"
            /\ self.max_workers.n = (IF cap <= c THEN cap ELSE c)

\* g = 2 on 8 CPUs gives 8
C4_Witness ==
    /\ pc = "idle"
    /\ init_args.max_workers = PyStr("auto")
    /\ init_args.serving_gpus = PyInt(2)
    /\ usable_cpu_count = 8
    /\ self.max_workers = PyInt(8)

\* C5: with max_workers "auto" and no serving_gpus, construction does not
\* raise, for any CPU count c, and the stored budget is c // 2.
C5_AutoWithoutGpus ==
    (/\ pc # "start"
     /\ init_args.max_workers = PyStr("auto")
     /\ init_args.serving_gpus = PyNone) =>
        /\ pc # "init_failed"
        /\ outcome.kind # "raise" \/ outcome.op # "__init__"
        /\ self.max_workers.t = "int"
        /\ 2 * self.max_workers.n <= usable_cpu_count
        /\ usable_cpu_count < 2 * self.max_workers.n + 2

\* one usable CPU: construction returns and the budget is 0
C5_Witness ==
    /\ pc = "idle"
    /\ init_args.max_workers = PyStr("auto")
    /\ init_args.serving_gpus = PyNone
    /\ usable_cpu_count = 1
    /\ outcome = Returned("__init__", RetNone)
    /\ self.max_workers = PyInt(0)

\* C6: in the branch variant's gen_answers the branch generator is called
\* first, generate_answers is called only once the generator has returned,
\* and not at all when the generator raised.
C6_MaterializeBeforeGenerate ==
    (/\ self.name = "mt_bench_branch"
     /\ \/ pc \in {"branch_generate", "branch_gen_answers"}
        \/ pc = "idle" /\ outcome.op = "gen_answers") =>
        /\ Len(calls) >= 1
        /\ calls[1].ev = "call" /\ calls[1].fn = GenerateBranch
        /\ \A i \in 1 .. Len(calls) :
              (calls[i].ev = "call" /\ calls[i].fn = GenerateAnswers) =>
                  /\ i = 3
                  /\ calls[2].ev = "return" /\ calls[2].fn = GenerateBranch
        /\ (Len(calls) >= 2 /\ calls[2].ev = "raise") =>
              /\ Len(calls) = 2
              /\ outcome.kind = "raise"

\* gen_answers of the branch variant ran both collaborators to the end
C6_Witness ==
    /\ self.name = "mt_bench_branch"
    /\ pc = "idle"
    /\ outcome = Returned("gen_answers", RetNone)
    /\ Len(calls) = 4
    /\ calls[3].ev = "call" /\ calls[3].fn = GenerateAnswers

\* C7: judge_answers of the standard variant returns exactly the triple
\* (overall_score, qa_pairs, turn_scores) of what generate_judgment returned.
C7_StdJudgeReturnsTriple ==
    (/\ self.name = "mt_bench"
     /\ pc = "idle"
     /\ outcome.kind = "return" /\ outcome.op = "judge_answers") =>
        LET r == calls[Len(calls)].result.items
        IN  /\ outcome.value.t = "tuple"
            /\ outcome.value.items = <<r[1], r[2], r[3]>>

C9_FailurePropagates ==
    \A i \in 1 .. Len(calls) :
        calls[i].ev = "raise" =>
            /\ i = Len(calls)
            /\ pc = "idle"
            /\ outcome.kind = "raise"
            /\ outcome.op \in {"gen_answers", "judge_answers"}
            /\ outcome.exc = calls[i].exc
            /\ outcome.value = NoValue

\* generate_answers failed after the branch was materialized
C9_Witness ==
    /\ self.name = "mt_bench_branch"
    /\ Len(calls) = 4
    /\ calls[4].ev = "raise" /\ calls[4].fn = GenerateAnswers
    /\ outcome = Raised("gen_answers", calls[4].exc)

\* C10: once constructed, no step changes an attribute of the evaluator, and
\* every collaborator call that takes max_workers is given the stored one.
C10_ConfigImmutable ==
    /\ [][pc # "start" => self' = self]_vars
    /\ [](\A i \in 1 .. Len(calls) :
             (calls[i].ev = "call" /\ calls[i].fn # GenerateBranch) =>
                 calls[i].args.max_workers = self.max_workers)

\* built on 16 CPUs, called after the host shrank to 2: the call is given 8
C10_Witness ==
    /\ pc = "std_judge_answers"
    /\ init_args.max_workers = PyStr("auto")
    /\ init_args.serving_gpus = PyNone
    /\ usable_cpu_count = 16
    /\ host_cpus = 2
    /\ calls[1].args.max_workers = PyInt(8)
    /\ self.max_workers = PyInt(8)


====
